---------------------------- MODULE Spec2Model ----------------------------
(***************************************************************************)
(* A model of package gomon (bnixon67/gomon): the Monitor factory          *)
(* NewMonitor, sanitizeURL, Monitor.isSuccessStatus, Monitor.Check and     *)
(* certInfo, together with the concurrent driver of the example program.   *)
(*                                                                         *)
(* Go strings are modelled as sequences of tokens.  A token is a run of    *)
(* letters ("https", "GET", "a"), one delimiter character (":", "/", "?",  *)
(* " ") or the escape "%20"; the library routines below only ever split a  *)
(* string at delimiters, so a token behaves as the characters it stands    *)
(* for.  The empty Go string is the empty sequence.  A nil pointer, a nil  *)
(* error and a nil interface are the record NIL.                           *)
(***************************************************************************)
EXTENDS Integers, Sequences, FiniteSets, TLC

VARIABLES
    now,        \* the wall clock read by time.Now()
    monitors,   \* the *Monitor held in each slot of the driver's slice
    built,      \* the configuration each monitor was constructed with
    calls,      \* one record per goroutine running Monitor.Check
    fn,         \* function-level runs: the function applied ("" before)
    arg,        \* function-level runs: its input
    ret         \* function-level runs: what it returned

vars == <<now, monitors, built, calls, fn, arg, ret>>

NIL == [nil |-> TRUE]

(***************************************************************************)
(* Bounds of the model.                                                    *)
(***************************************************************************)
MaxLen == 4        \* tokens of a raw URL after its prefix
MaxTime == 2       \* last reading of the clock (it starts at 1)
NumMonitors == 2   \* slots of the driver's monitor slice
NumCalls == 2      \* concurrent Check invocations

(***************************************************************************)
(* Strings.                                                                *)
(***************************************************************************)
Letters == {"http", "https", "HTTPS", "GET", "a", "b"}

\* strings.ToLower on one token.
ToLower(tok) == IF tok = "HTTPS" THEN "https" ELSE tok

\* strings.Index / strings.LastIndex: 1-based, 0 when absent.
RECURSIVE IndexFrom(_, _, _)
IndexFrom(s, c, i) ==
    IF i > Len(s) THEN 0
    ELSE IF s[i] = c THEN i
    ELSE IndexFrom(s, c, i + 1)

Index(s, c) == IndexFrom(s, c, 1)

RECURSIVE LastIndexFrom(_, _, _)
LastIndexFrom(s, c, i) ==
    IF i = 0 THEN 0
    ELSE IF s[i] = c THEN i
    ELSE LastIndexFrom(s, c, i - 1)

LastIndex(s, c) == LastIndexFrom(s, c, Len(s))

Contains(s, c) == Index(s, c) # 0

Count(s, c) == Cardinality({i \in 1..Len(s) : s[i] = c})

HasPrefix(s, p) == Len(s) >= Len(p) /\ SubSeq(s, 1, Len(p)) = p

Before(s, i) == SubSeq(s, 1, i - 1)
After(s, i) == SubSeq(s, i + 1, Len(s))

\* strings.Cut(s, c): the text before and after the first c.
Cut(s, c) ==
    LET i == Index(s, c)
    IN  IF i = 0 THEN [before |-> s, after |-> <<>>, found |-> FALSE]
        ELSE [before |-> Before(s, i), after |-> After(s, i), found |-> TRUE]

\* A string of one token.
Str(tok) == <<tok>>

Error(msg) == [msg |-> msg]

(***************************************************************************)
(* net/url as called from sanitizeURL and http.NewRequestWithContext.      *)
(* The strings of the model hold no "#", "@", "[", "*", digit or control   *)
(* byte, so fragments, userinfo, IPv6 literals and numeric ports are left  *)
(* out; every other branch of url.Parse and URL.String is here.            *)
(***************************************************************************)
EmptyURL ==
    [Scheme |-> <<>>, Opaque |-> <<>>, Host |-> <<>>, Path |-> <<>>,
     RawQuery |-> <<>>, ForceQuery |-> FALSE, OmitHost |-> FALSE]

\* url.getScheme: a leading run of letters closed by ":".
RECURSIVE getSchemeFrom(_, _)
getSchemeFrom(rawURL, i) ==
    IF i > Len(rawURL)
    THEN [scheme |-> <<>>, rest |-> rawURL, err |-> NIL]
    ELSE IF rawURL[i] \in Letters
    THEN getSchemeFrom(rawURL, i + 1)
    ELSE IF rawURL[i] = ":"
    THEN IF i = 1
         THEN [scheme |-> <<>>, rest |-> <<>>,
               err |-> Error("missing protocol scheme")]
         ELSE [scheme |-> Before(rawURL, i), rest |-> After(rawURL, i),
               err |-> NIL]
    ELSE [scheme |-> <<>>, rest |-> rawURL, err |-> NIL]

getScheme(rawURL) == getSchemeFrom(rawURL, 1)

\* url.validOptionalPort on the text from the last ":" of the authority:
\* only digits may follow the colon, and the model has none.
validOptionalPort(colonPort) == Len(colonPort) = 1

\* url.parseHost: the port check, then unescape(host, encodeHost), which
\* rejects a space and a %20 escape in the host.
parseHost(host) ==
    LET i == LastIndex(host, ":")
    IN  IF i # 0 /\ ~validOptionalPort(SubSeq(host, i, Len(host)))
        THEN [host |-> <<>>, err |-> Error("invalid port after host")]
        ELSE IF Contains(host, " ")
        THEN [host |-> <<>>, err |-> Error("invalid character in host name")]
        ELSE IF Contains(host, "%20")
        THEN [host |-> <<>>, err |-> Error("invalid URL escape")]
        ELSE [host |-> host, err |-> NIL]

\* url.unescape(s, encodePath): %20 becomes a space.
unescapePath(s) == [i \in 1..Len(s) |-> IF s[i] = "%20" THEN " " ELSE s[i]]

\* url.escape(s, encodePath): a space becomes %20 (a "?" cannot be in a path
\* that url.Parse produced).
escapePath(s) == [i \in 1..Len(s) |-> IF s[i] = " " THEN "%20" ELSE s[i]]

\* url.Parse.
Parse(rawURL) ==
    LET gs == getScheme(rawURL)
        scheme == [i \in 1..Len(gs.scheme) |-> ToLower(gs.scheme[i])]
        force == /\ Len(gs.rest) > 0
                 /\ gs.rest[Len(gs.rest)] = "?"
                 /\ Count(gs.rest, "?") = 1
        q == Cut(gs.rest, "?")
        rest == IF force THEN Before(gs.rest, Len(gs.rest)) ELSE q.before
        query == IF force THEN <<>> ELSE q.after
        rooted == HasPrefix(rest, <<"/">>)
        auth == /\ HasPrefix(rest, <<"/", "/">>)
                /\ (scheme # <<>> \/ ~HasPrefix(rest, <<"/", "/", "/">>))
        tail == SubSeq(rest, 3, Len(rest))
        slash == Index(tail, "/")
        authority == IF slash = 0 THEN tail ELSE Before(tail, slash)
        path == IF ~auth THEN rest
                ELSE IF slash = 0 THEN <<>>
                ELSE SubSeq(tail, slash, Len(tail))
        ph == parseHost(authority)
    IN  IF gs.err # NIL THEN [url |-> NIL, err |-> gs.err]
        ELSE IF ~rooted /\ scheme # <<>>
        THEN [url |-> [EmptyURL EXCEPT !.Scheme = scheme, !.Opaque = rest,
                           !.RawQuery = query, !.ForceQuery = force],
              err |-> NIL]
        ELSE IF ~rooted /\ Contains(Cut(rest, "/").before, ":")
        THEN [url |-> NIL,
              err |-> Error("first path segment in URL cannot contain colon")]
        ELSE IF auth /\ ph.err # NIL
        THEN [url |-> NIL, err |-> ph.err]
        ELSE [url |-> [Scheme |-> scheme, Opaque |-> <<>>,
                       Host |-> IF auth THEN ph.host ELSE <<>>,
                       Path |-> unescapePath(path),
                       RawQuery |-> query, ForceQuery |-> force,
                       OmitHost |-> ~auth /\ scheme # <<>> /\ rooted],
              err |-> NIL]

\* URL.String.
String(u) ==
    LET path == escapePath(u.Path)
        head == IF u.Scheme # <<>> THEN u.Scheme \o <<":">> ELSE <<>>
        slashes == IF /\ (u.Scheme # <<>> \/ u.Host # <<>>)
                      /\ ~(u.OmitHost /\ u.Host = <<>>)
                      /\ (u.Host # <<>> \/ u.Path # <<>>)
                   THEN <<"/", "/">> ELSE <<>>
        sep == IF path # <<>> /\ path[1] # "/" /\ u.Host # <<>>
               THEN <<"/">> ELSE <<>>
        dot == IF /\ head \o slashes \o u.Host \o sep = <<>>
                  /\ Contains(Cut(path, "/").before, ":")
               THEN <<".", "/">> ELSE <<>>
        body == IF u.Opaque # <<>> THEN u.Opaque
                ELSE slashes \o u.Host \o sep \o dot \o path
        query == IF u.ForceQuery \/ u.RawQuery # <<>>
                 THEN <<"?">> \o u.RawQuery ELSE <<>>
    IN  head \o body \o query

\* URL.Hostname: the host without a valid port.
Hostname(u) ==
    LET i == LastIndex(u.Host, ":")
    IN  IF i = 0 THEN u.Host ELSE Before(u.Host, i)

(***************************************************************************)
(* gomon.sanitizeURL                                                       *)
(***************************************************************************)
\* As sanitizeURL, but handing back the text it was given.
sanitizeURLRaw(rawURL) ==
    LET p == Parse(rawURL)
    IN  IF p.err # NIL THEN [url |-> <<>>, err |-> p.err]
        ELSE IF p.url.Scheme = <<>>
        THEN [url |-> <<>>, err |-> Error("missing scheme")]
        ELSE IF p.url.Host = <<>>
        THEN [url |-> <<>>, err |-> Error("missing host")]
        ELSE [url |-> rawURL, err |-> NIL]

sanitizeURL(rawURL) ==
    LET p == Parse(rawURL)
    IN  IF p.err # NIL THEN [url |-> <<>>, err |-> p.err]
        ELSE IF p.url.Scheme = <<>>
        THEN [url |-> <<>>, err |-> Error("missing scheme")]
        ELSE IF p.url.Host = <<>>
        THEN [url |-> <<>>, err |-> Error("missing host")]
        ELSE [url |-> String(p.url), err |-> NIL]

(***************************************************************************)
(* gomon.NewMonitor                                                        *)
(***************************************************************************)
DefaultTimeout == 10    \* seconds

DefaultUpStatusCodes == <<200, 201>>

\* The http.Client NewMonitor builds: the overall deadline, the TLS policy of
\* its own transport, and the redirect policy.
NewClient(config) ==
    [Timeout |-> config.RequestTimeout,
     InsecureSkipVerify |-> config.IgnoreCert,
     CheckRedirect |-> IF config.DontFollowRedirect THEN "noRedirect"
                       ELSE "default"]

\* As NewMonitor, but with the timeout's sign checked before the method.
NewMonitorTimeoutFirst(config) ==
    LET c1 == IF config.RequestTimeout = 0
              THEN [config EXCEPT !.RequestTimeout = DefaultTimeout]
              ELSE config
        c2 == IF Len(c1.UpStatusCodes) = 0
              THEN [c1 EXCEPT !.UpStatusCodes = DefaultUpStatusCodes]
              ELSE c1
        s == sanitizeURL(c2.URL)
        c3 == [c2 EXCEPT !.URL = s.url]
    IN  IF c2.RequestTimeout < 0
        THEN [mon |-> NIL, err |-> Error("negative timeout")]
        ELSE IF c2.Method = <<>>
        THEN [mon |-> NIL, err |-> Error("missing HTTP method")]
        ELSE IF s.err # NIL
        THEN [mon |-> NIL, err |-> [msg |-> "invalid URL", cause |-> s.err]]
        ELSE [mon |-> [client |-> NewClient(c3), config |-> c3], err |-> NIL]

\* As NewMonitor, but defaulting every timeout that is not positive.
NewMonitorDefaultsNegative(config) ==
    LET c1 == IF config.RequestTimeout <= 0
              THEN [config EXCEPT !.RequestTimeout = DefaultTimeout]
              ELSE config
        c2 == IF Len(c1.UpStatusCodes) = 0
              THEN [c1 EXCEPT !.UpStatusCodes = DefaultUpStatusCodes]
              ELSE c1
        s == sanitizeURL(c2.URL)
        c3 == [c2 EXCEPT !.URL = s.url]
    IN  IF c2.Method = <<>>
        THEN [mon |-> NIL, err |-> Error("missing HTTP method")]
        ELSE IF c2.RequestTimeout < 0
        THEN [mon |-> NIL, err |-> Error("negative timeout")]
        ELSE IF s.err # NIL
        THEN [mon |-> NIL, err |-> [msg |-> "invalid URL", cause |-> s.err]]
        ELSE [mon |-> [client |-> NewClient(c3), config |-> c3], err |-> NIL]

NewMonitor(config) ==
    LET c1 == IF config.RequestTimeout = 0
              THEN [config EXCEPT !.RequestTimeout = DefaultTimeout]
              ELSE config
        c2 == IF Len(c1.UpStatusCodes) = 0
              THEN [c1 EXCEPT !.UpStatusCodes = DefaultUpStatusCodes]
              ELSE c1
        s == sanitizeURL(c2.URL)
        c3 == [c2 EXCEPT !.URL = s.url]
    IN  IF c2.Method = <<>>
        THEN [mon |-> NIL, err |-> Error("missing HTTP method")]
        ELSE IF c2.RequestTimeout < 0
        THEN [mon |-> NIL, err |-> Error("negative timeout")]
        ELSE IF s.err # NIL
        THEN [mon |-> NIL, err |-> [msg |-> "invalid URL", cause |-> s.err]]
        ELSE [mon |-> [client |-> NewClient(c3), config |-> c3], err |-> NIL]

\* A Monitor written as a struct literal around a zero http.Client, as the
\* package's tests build it: no validation, no defaulting, the default
\* transport (certificates verified, redirects followed).
LiteralMonitor(config) ==
    [client |-> [Timeout |-> 0, InsecureSkipVerify |-> FALSE,
                 CheckRedirect |-> "default"],
     config |-> config]

(***************************************************************************)
(* gomon.Monitor.isSuccessStatus                                           *)
(***************************************************************************)
isSuccessStatus(m, code) ==
    IF Len(m.config.UpStatusCodes) = 0
    THEN code >= 200 /\ code < 300
    ELSE \E i \in 1..Len(m.config.UpStatusCodes) :
            code = m.config.UpStatusCodes[i]

(***************************************************************************)
(* crypto/x509 as called from certInfo and from the TLS handshake.  A      *)
(* certificate is its names and its validity window; a signature is the    *)
(* issuer's name, and the system pool is the set of trusted issuer names.  *)
(***************************************************************************)
\* Certificate.Verify: the leaf's validity window, the expected host name,
\* then a chain through the intermediates to a root, in that order.
RECURSIVE chainsTo(_, _, _, _, _)
chainsTo(issuer, intermediates, roots, t, depth) ==
    \/ issuer \in roots
    \/ /\ depth > 0
       /\ \E i \in 1..Len(intermediates) :
            /\ intermediates[i].Subject = issuer
            /\ t >= intermediates[i].NotBefore
            /\ t <= intermediates[i].NotAfter
            /\ chainsTo(intermediates[i].Issuer, intermediates, roots, t,
                        depth - 1)

Verify(cert, opts, t) ==
    IF t < cert.NotBefore \/ t > cert.NotAfter
    THEN Error("certificate has expired or is not yet valid")
    ELSE IF \A i \in 1..Len(cert.DNSNames) : cert.DNSNames[i] # opts.DNSName
    THEN Error("certificate is not valid for the host name")
    ELSE IF ~chainsTo(cert.Issuer, opts.Intermediates, opts.Roots, t,
                      Len(opts.Intermediates))
    THEN Error("certificate signed by unknown authority")
    ELSE NIL

(***************************************************************************)
(* gomon.certInfo.  t is the reading of time.Now() and sys what            *)
(* x509.SystemCertPool() answers.  The caller guarantees a leaf; indexing  *)
(* an empty PeerCertificates panics.                                       *)
(***************************************************************************)
Panic == [panic |-> "index out of range"]

\* As certInfo, but with chain verification ahead of the two date rules.
certInfoVerifyFirst(tlsState, host, t, sys) ==
    IF Len(tlsState.PeerCertificates) = 0 THEN Panic
    ELSE
    LET cert == tlsState.PeerCertificates[1]
        info == [Subject |-> cert.Subject, Issuer |-> cert.Issuer,
                 ValidFrom |-> cert.NotBefore, ValidTo |-> cert.NotAfter,
                 DNSNames |-> cert.DNSNames, IsValid |-> TRUE,
                 ErrorMsg |-> <<>>]
        opts == [DNSName |-> host, Roots |-> sys.roots,
                 Intermediates |-> Tail(tlsState.PeerCertificates)]
        v == Verify(cert, opts, t)
    IN  IF sys.err # NIL
        THEN [info EXCEPT !.IsValid = FALSE,
                 !.ErrorMsg = <<"error loading system root certificates: ",
                                sys.err.msg>>]
        ELSE IF v # NIL
        THEN [info EXCEPT !.IsValid = FALSE,
                 !.ErrorMsg = <<"hostname verification failed: ", v.msg>>]
        ELSE IF t < cert.NotBefore
        THEN [info EXCEPT !.IsValid = FALSE,
                 !.ErrorMsg = <<"certificate not yet valid: ",
                                ToString(cert.NotBefore)>>]
        ELSE IF t > cert.NotAfter
        THEN [info EXCEPT !.IsValid = FALSE,
                 !.ErrorMsg = <<"certificate has expired: ",
                                ToString(cert.NotAfter)>>]
        ELSE info

certInfo(tlsState, host, t, sys) ==
    IF Len(tlsState.PeerCertificates) = 0 THEN Panic
    ELSE
    LET cert == tlsState.PeerCertificates[1]
        info == [Subject |-> cert.Subject, Issuer |-> cert.Issuer,
                 ValidFrom |-> cert.NotBefore, ValidTo |-> cert.NotAfter,
                 DNSNames |-> cert.DNSNames, IsValid |-> TRUE,
                 ErrorMsg |-> <<>>]
        opts == [DNSName |-> host, Roots |-> sys.roots,
                 Intermediates |-> Tail(tlsState.PeerCertificates)]
        v == Verify(cert, opts, t)
    IN  IF t < cert.NotBefore
        THEN [info EXCEPT !.IsValid = FALSE,
                 !.ErrorMsg = <<"certificate not yet valid: ",
                                ToString(cert.NotBefore)>>]
        ELSE IF t > cert.NotAfter
        THEN [info EXCEPT !.IsValid = FALSE,
                 !.ErrorMsg = <<"certificate has expired: ",
                                ToString(cert.NotAfter)>>]
        ELSE IF sys.err # NIL
        THEN [info EXCEPT !.IsValid = FALSE,
                 !.ErrorMsg = <<"error loading system root certificates: ",
                                sys.err.msg>>]
        ELSE IF v # NIL
        THEN [info EXCEPT !.IsValid = FALSE,
                 !.ErrorMsg = <<"hostname verification failed: ", v.msg>>]
        ELSE info

(***************************************************************************)
(* net/http as called from Monitor.Check.                                  *)
(***************************************************************************)
\* http.validMethod: a non-empty run of token characters.
validMethod(method) ==
    Len(method) > 0 /\ \A i \in 1..Len(method) : method[i] \in Letters

\* http.removeEmptyPort.
removeEmptyPort(host) ==
    IF Len(host) > 0 /\ host[Len(host)] = ":"
    THEN Before(host, Len(host)) ELSE host

\* http.NewRequestWithContext(ctx, method, url, nil).
NewRequestWithContext(ctx, method, url) ==
    LET meth == IF method = <<>> THEN <<"GET">> ELSE method
        p == Parse(url)
    IN  IF ~validMethod(meth)
        THEN [req |-> NIL, err |-> Error("net/http: invalid method")]
        ELSE IF ctx = "nil"
        THEN [req |-> NIL, err |-> Error("net/http: nil Context")]
        ELSE IF p.err # NIL
        THEN [req |-> NIL, err |-> p.err]
        ELSE [req |-> [ctx |-> ctx, Method |-> meth,
                       URL |-> [p.url EXCEPT !.Host = removeEmptyPort(@)],
                       Header |-> <<>>],
              err |-> NIL]

\* The URL of the request that the response answers: the target of the
\* redirect when the endpoint redirects and the client follows.
FinalURL(client, req, b) ==
    IF b.redirect = <<>> \/ client.CheckRedirect = "noRedirect"
    THEN req.URL
    ELSE Parse(b.redirect).url

\* http.Client.Do against an endpoint that behaves as b at time t.  With
\* InsecureSkipVerify unset the handshake verifies the chain the server
\* presents, for the host dialled, against the system pool.
Do(client, req, b, t) ==
    LET final == FinalURL(client, req, b)
        tls == final.Scheme = Str("https")
        opts == [DNSName |-> Hostname(final), Roots |-> b.sys.roots,
                 Intermediates |-> Tail(b.chain)]
    IN  IF req.ctx = "cancelled"
        THEN [resp |-> NIL, err |-> Error("context canceled")]
        ELSE IF req.URL.Scheme \notin {Str("http"), Str("https")}
        THEN [resp |-> NIL, err |-> Error("unsupported protocol scheme")]
        ELSE IF req.URL.Host = <<>>
        THEN [resp |-> NIL, err |-> Error("http: no Host in request URL")]
        ELSE IF b.fail # "none"
        THEN [resp |-> NIL, err |-> Error(b.fail)]
        ELSE IF /\ tls
                /\ ~client.InsecureSkipVerify
                /\ \/ Len(b.chain) = 0
                   \/ b.sys.err # NIL
                   \/ Verify(b.chain[1], opts, t) # NIL
        THEN [resp |-> NIL,
              err |-> Error("tls: failed to verify certificate")]
        ELSE [resp |-> [StatusCode |-> IF b.redirect # <<>>
                                          /\ client.CheckRedirect = "noRedirect"
                                       THEN 302 ELSE b.status,
                        TLS |-> IF tls THEN [PeerCertificates |-> b.chain]
                                ELSE NIL,
                        Request |-> [URL |-> final],
                        bodyOK |-> b.bodyOK],
              err |-> NIL]

(***************************************************************************)
(* gomon.Monitor.Check, in the three stretches between its blocking        *)
(* calls.  Each takes the locals of the invocation and gives them back;    *)
(* ret is what the invocation returns, NIL while it runs.                  *)
(***************************************************************************)
CacheHeaders ==
    [h \in {"Cache-Control", "Pragma", "Expires"} |->
        CASE h = "Cache-Control" -> "no-cache, no-store, must-revalidate"
          [] h = "Pragma" -> "no-cache"
          [] h = "Expires" -> "0"]

NoCache(t) == <<"nocache=", ToString(t)>>

CheckError(msg, url, cause) == [msg |-> msg, url |-> url, cause |-> cause]

Returns(result, err) == [result |-> result, err |-> err]

\* As CheckPrepare, but with the query rewrite reaching the stored URL too.
CheckPrepareShared(m, ctx, t) ==
    LET result == [URL |-> m.config.URL, StatusCode |-> 0, Start |-> 0,
                   End |-> 0, CertInfo |-> NIL]
        nr == NewRequestWithContext(ctx, m.config.Method, m.config.URL)
        req == [nr.req EXCEPT !.Header = CacheHeaders,
                              !.URL.RawQuery = NoCache(t)]
    IN  IF nr.err # NIL
        THEN [m |-> m, result |-> result, req |-> NIL,
              ret |-> Returns(NIL, CheckError("failed to create request",
                                              m.config.URL, nr.err))]
        ELSE [m |-> [m EXCEPT !.config.URL = String(req.URL)],
              result |-> [result EXCEPT !.Start = t],
              req |-> req,
              ret |-> NIL]

\* Lines 134-147: the result, the request, its headers and query, Start.
\* m is the receiver as the stretch leaves it.
CheckPrepare(m, ctx, t) ==
    LET result == [URL |-> m.config.URL, StatusCode |-> 0, Start |-> 0,
                   End |-> 0, CertInfo |-> NIL]
        nr == NewRequestWithContext(ctx, m.config.Method, m.config.URL)
    IN  IF nr.err # NIL
        THEN [m |-> m, result |-> result, req |-> NIL,
              ret |-> Returns(NIL, CheckError("failed to create request",
                                              m.config.URL, nr.err))]
        ELSE [m |-> m,
              result |-> [result EXCEPT !.Start = t],
              req |-> [nr.req EXCEPT !.Header = CacheHeaders,
                                     !.URL.RawQuery = NoCache(t)],
              ret |-> NIL]

\* Lines 148-156: what client.Do gave, End, the status code.
CheckReceive(m, result, out, t) ==
    IF out.err # NIL
    THEN [result |-> [result EXCEPT !.End = t], resp |-> NIL,
          ret |-> Returns(NIL, CheckError("failed to send request",
                                          m.config.URL, out.err))]
    ELSE [result |-> [result EXCEPT !.End = t,
                                    !.StatusCode = out.resp.StatusCode],
          resp |-> out.resp, ret |-> NIL]

\* As CheckFinish, but handing back the result beside a body-read error.
CheckFinishPartial(m, result, resp, t, sys) ==
    IF ~resp.bodyOK
    THEN [result |-> result,
          ret |-> Returns(result, CheckError("failed to read response body",
                                             m.config.URL,
                                             Error("unexpected EOF")))]
    ELSE IF resp.TLS # NIL /\ Len(resp.TLS.PeerCertificates) > 0
    THEN LET r == [result EXCEPT !.CertInfo =
                      certInfo(resp.TLS, Hostname(resp.Request.URL), t, sys)]
         IN  [result |-> r, ret |-> Returns(r, NIL)]
    ELSE [result |-> result, ret |-> Returns(result, NIL)]

\* As CheckFinish, but inspecting the certificate of every TLS response.
CheckFinishAnyTLS(m, result, resp, t, sys) ==
    IF ~resp.bodyOK
    THEN [result |-> result,
          ret |-> Returns(NIL, CheckError("failed to read response body",
                                          m.config.URL,
                                          Error("unexpected EOF")))]
    ELSE IF resp.TLS # NIL
    THEN LET r == [result EXCEPT !.CertInfo =
                      certInfo(resp.TLS, Hostname(resp.Request.URL), t, sys)]
         IN  [result |-> r, ret |-> Returns(r, NIL)]
    ELSE [result |-> result, ret |-> Returns(result, NIL)]

\* Lines 158-169: the body is drained, the certificate is inspected.
CheckFinish(m, result, resp, t, sys) ==
    IF ~resp.bodyOK
    THEN [result |-> result,
          ret |-> Returns(NIL, CheckError("failed to read response body",
                                          m.config.URL,
                                          Error("unexpected EOF")))]
    ELSE IF resp.TLS # NIL /\ Len(resp.TLS.PeerCertificates) > 0
    THEN LET r == [result EXCEPT !.CertInfo =
                      certInfo(resp.TLS, Hostname(resp.Request.URL), t, sys)]
         IN  [result |-> r, ret |-> Returns(r, NIL)]
    ELSE [result |-> result, ret |-> Returns(result, NIL)]

(***************************************************************************)
(* Inputs.                                                                 *)
(***************************************************************************)
Alphabet == {"https", "HTTPS", "a", ":", "/", "?", " "}

UpTo(n) == UNION {[1..k -> Alphabet] : k \in 0..n}

Prefixes ==
    {<<>>, <<"https", ":", "/", "/">>, <<"HTTPS", ":", "/", "/", "a">>}

\* Every raw URL made of a prefix and at most MaxLen further tokens.
RawURLs == {p \o s : p \in Prefixes, s \in UpTo(MaxLen)}

ExampleURL == <<"https", ":", "/", "/", "a">>

Methods == {<<>>, <<"GET">>, <<"GET", " ", "GET">>}

Timeouts == {-5, 0, 5}

StatusSets == {<<>>, <<200>>, <<200, 404>>, <<201, 204>>}

Codes == {100, 199, 200, 201, 204, 299, 300, 404, 500}

ConfigURLs ==
    {<<>>, ExampleURL, <<"a">>, <<"https", ":", "/", "/">>, <<":", "a">>,
     <<"HTTPS", ":", "/", "/", "a", "/", " ", "?", "a">>}

Configs ==
    [URL : ConfigURLs, Method : Methods, RequestTimeout : Timeouts,
     IgnoreCert : BOOLEAN, DontFollowRedirect : BOOLEAN,
     UpStatusCodes : {<<>>, <<200>>}]

\* The "Valid configuration" case of TestNewMonitor, with its URL replaced.
ValidConfig(rawURL) ==
    [URL |-> rawURL, Method |-> <<"GET">>, RequestTimeout |-> 5,
     IgnoreCert |-> FALSE, DontFollowRedirect |-> FALSE,
     UpStatusCodes |-> <<200>>]

\* Certificates.  The system pool trusts "ca"; "ica" is an intermediate
\* signed by it; "self" is trusted by nobody.
FarFuture == MaxTime + 1

Windows ==
    {<<0, FarFuture>>, <<0, 0>>, <<FarFuture, FarFuture + 1>>,
     <<FarFuture, 0>>, <<0, 1>>}

Cert(subject, issuer, w) ==
    [Subject |-> Str(subject), Issuer |-> Str(issuer), NotBefore |-> w[1],
     NotAfter |-> w[2], DNSNames |-> <<Str(subject)>>]

IntermediateCert == Cert("ica", "ca", <<0, FarFuture>>)

LeafCerts ==
    {Cert(n, i, w) : n \in {"a", "b"}, i \in {"ca", "ica", "self"},
                     w \in Windows}

SystemPools ==
    {[roots |-> {Str("ca")}, err |-> NIL],
     [roots |-> {}, err |-> Error("no system roots")]}

CertInputs ==
    [tlsState : {[PeerCertificates |-> <<l>> \o rest] :
                    l \in LeafCerts, rest \in {<<>>, <<IntermediateCert>>}},
     host : {Str("a"), Str("b")},
     t : 1..MaxTime,
     sys : SystemPools]

(***************************************************************************)
(* Function-level runs: one function applied to one input.                 *)
(***************************************************************************)
NoProgram == now = 1 /\ monitors = <<>> /\ built = <<>> /\ calls = <<>>

Apply(name, result) ==
    /\ fn = ""
    /\ fn' = name
    /\ ret' = result
    /\ UNCHANGED <<now, monitors, built, calls, arg>>

\* sanitizeURL and NewMonitor over raw URLs.
InitURL == NoProgram /\ fn = "" /\ ret = NIL /\ arg \in RawURLs

CallSanitizeURL == Apply("sanitizeURL", sanitizeURL(arg))

CallNewMonitorURL == Apply("NewMonitor", NewMonitor(ValidConfig(arg)))

NextURL == CallSanitizeURL \/ CallNewMonitorURL

SpecURL == InitURL /\ [][NextURL]_vars

\* NewMonitor over configurations.
InitNew == NoProgram /\ fn = "" /\ ret = NIL /\ arg \in Configs

CallNewMonitor == Apply("NewMonitor", NewMonitor(arg))

NextNew == CallNewMonitor

SpecNew == InitNew /\ [][NextNew]_vars

\* isSuccessStatus on a monitor from NewMonitor or from a struct literal.
StatusInputs ==
    [config : {[ValidConfig(ExampleURL) EXCEPT !.UpStatusCodes = u] :
                  u \in StatusSets},
     code : Codes]

InitStatus == NoProgram /\ fn = "" /\ ret = NIL /\ arg \in StatusInputs

StatusResult(m, code) == [mon |-> m, up |-> isSuccessStatus(m, code)]

StatusViaNewMonitor ==
    Apply("NewMonitor", StatusResult(NewMonitor(arg.config).mon, arg.code))

StatusViaLiteral ==
    Apply("literal", StatusResult(LiteralMonitor(arg.config), arg.code))

NextStatus == StatusViaNewMonitor \/ StatusViaLiteral

SpecStatus == InitStatus /\ [][NextStatus]_vars

\* certInfo over TLS states, host names, clock readings and system pools.
InitCert == NoProgram /\ fn = "" /\ ret = NIL /\ arg \in CertInputs

CallCertInfo ==
    Apply("certInfo", certInfo(arg.tlsState, arg.host, arg.t, arg.sys))

NextCert == CallCertInfo

SpecCert == InitCert /\ [][NextCert]_vars

(***************************************************************************)
(* The program: monitors are constructed, then Check runs on them, one     *)
(* goroutine per invocation, while the clock advances.                     *)
(***************************************************************************)
\* What an endpoint may do with a request: fail to answer, or answer (maybe
\* after a redirect) with a status, a body that can or cannot be read and,
\* over TLS, a certificate chain.  sys is the system pool of the host the
\* monitor runs on.  crypto/tls itself refuses a server without certificate;
\* the empty chain is the TLS state that line 164 guards against.
ServedChains ==
    {<<>>,
     <<Cert("a", "ca", <<0, FarFuture>>)>>,
     <<Cert("a", "ca", <<0, 0>>)>>,
     <<Cert("a", "ca", <<FarFuture, FarFuture + 1>>)>>,
     <<Cert("a", "ca", <<0, 1>>)>>,
     <<Cert("a", "self", <<0, FarFuture>>)>>,
     <<Cert("b", "ca", <<0, FarFuture>>)>>,
     <<Cert("a", "ica", <<0, FarFuture>>)>>,
     <<Cert("a", "ica", <<0, FarFuture>>), IntermediateCert>>}

Answers ==
    [fail : {"none"}, redirect : {<<>>, <<"https", ":", "/", "/", "b">>},
     chain : ServedChains, status : {200, 404}, bodyOK : BOOLEAN,
     sys : SystemPools]

Unanswered(why) ==
    [fail |-> why, redirect |-> <<>>, chain |-> <<>>, status |-> 0,
     bodyOK |-> FALSE, sys |-> CHOOSE p \in SystemPools : p.err = NIL]

Behaviours == Answers \cup {Unanswered("dial"), Unanswered("timeout")}

\* The endpoints of the concurrent runs: unreachable, a good answer, a
\* not-found answer under an expired certificate, an unreadable body.
DriverBehaviours ==
    {b \in Behaviours :
        /\ b.redirect = <<>>
        /\ b.sys.err = NIL
        /\ \/ b.fail = "dial"
           \/ /\ b.fail = "none"
              /\ <<b.chain, b.status, b.bodyOK>> \in
                    {<<<<Cert("a", "ca", <<0, FarFuture>>)>>, 200, TRUE>>,
                     <<<<Cert("a", "ca", <<0, 0>>)>>, 404, TRUE>>,
                     <<<<Cert("a", "ca", <<0, FarFuture>>)>>, 200, FALSE>>}}

Contexts == {"background", "cancelled", "nil"}

\* The driver's list of URLs and the configuration it gives each of them.
urls ==
    <<<<"https", ":", "/", "/", "a", "/", "?", "a">>,
      <<"http", ":", "/", "/", "a">>,
      <<"https", ":", "/", "/", "b", "/">>>>

DriverConfig(i) ==
    [URL |-> urls[((i - 1) % Len(urls)) + 1], Method |-> <<"GET">>,
     RequestTimeout |-> 10, IgnoreCert |-> TRUE,
     DontFollowRedirect |-> FALSE, UpStatusCodes |-> <<>>]

\* The configurations of the single-invocation runs.
CheckConfigs ==
    [URL : {ExampleURL, <<"http", ":", "/", "/", "a">>,
            <<"https", ":", "/", "/", "a", "/", "?", "a">>,
            <<"HTTPS", ":", "/", "/", "a", "/", " ">>,
            <<"https", ":", "/", "/", ":">>},
     Method : {<<"GET">>, <<"GET", " ", "GET">>},
     RequestTimeout : {5}, IgnoreCert : BOOLEAN,
     DontFollowRedirect : BOOLEAN, UpStatusCodes : {<<200>>}]

LiteralConfigs == {ValidConfig(u) : u \in {<<>>, ExampleURL, <<":", "a">>}}

IdleCall ==
    [pc |-> "idle", m |-> 0, result |-> NIL, req |-> NIL, resp |-> NIL,
     served |-> NIL, began |-> 0, ended |-> 0, ret |-> NIL]

DoneCall == [IdleCall EXCEPT !.pc = "done"]

Tick ==
    /\ now < MaxTime
    /\ now' = now + 1
    /\ UNCHANGED <<monitors, built, calls, fn, arg, ret>>

\* Slot i of the monitor slice is filled, after the slots before it.
Construct(i, how, cfg, r) ==
    /\ built[i] = NIL
    /\ \A j \in DOMAIN built : j < i => built[j] # NIL
    /\ monitors' = [monitors EXCEPT ![i] = r.mon]
    /\ built' = [built EXCEPT
                    ![i] = [how |-> how, config |-> cfg, mon |-> r.mon,
                            err |-> r.err]]
    /\ UNCHANGED <<now, calls, fn, arg, ret>>

DriverBuild(i) ==
    Construct(i, "NewMonitor", DriverConfig(i), NewMonitor(DriverConfig(i)))

BuildNew(i) ==
    \E cfg \in CheckConfigs : Construct(i, "NewMonitor", cfg, NewMonitor(cfg))

BuildLiteral(i) ==
    \E cfg \in LiteralConfigs :
        Construct(i, "literal", cfg, [mon |-> LiteralMonitor(cfg), err |-> NIL])

\* Goroutine c enters Check and runs to client.Do.  It checks the monitor of
\* its own slot, as the driver has it, or the first monitor, which the
\* goroutines then share.
Begin(c, ctxs) ==
    /\ calls[c].pc = "idle"
    /\ \A i \in DOMAIN built : built[i] # NIL
    /\ \E m \in DOMAIN monitors \cap {1, c}, ctx \in ctxs :
        /\ monitors[m] # NIL
        /\ \E out \in {CheckPrepare(monitors[m], ctx, now)} :
            /\ monitors' = [monitors EXCEPT ![m] = out.m]
            /\ calls' = [calls EXCEPT
                  ![c] = [IdleCall EXCEPT
                             !.pc = IF out.ret = NIL THEN "do" ELSE "returned",
                             !.m = m, !.result = out.result, !.req = out.req,
                             !.began = now, !.ret = out.ret]]
    /\ UNCHANGED <<now, built, fn, arg, ret>>

\* client.Do returns: the endpoint behaved in one of the ways bs.
Send(c, bs) ==
    /\ calls[c].pc = "do"
    /\ \E b \in bs :
        \E out \in {CheckReceive(monitors[calls[c].m], calls[c].result,
                                 Do(monitors[calls[c].m].client, calls[c].req,
                                    b, now),
                                 now)} :
            calls' = [calls EXCEPT
                ![c] = [@ EXCEPT
                           !.pc = IF out.ret = NIL THEN "body" ELSE "returned",
                           !.result = out.result, !.resp = out.resp,
                           !.served = b, !.ended = now, !.ret = out.ret]]
    /\ UNCHANGED <<now, monitors, built, fn, arg, ret>>

\* The body is read and Check returns.
Finish(c) ==
    /\ calls[c].pc = "body"
    /\ \E out \in {CheckFinish(monitors[calls[c].m], calls[c].result,
                               calls[c].resp, now, calls[c].served.sys)} :
            calls' = [calls EXCEPT
                ![c] = [@ EXCEPT !.pc = "returned", !.result = out.result,
                                 !.ret = out.ret]]
    /\ UNCHANGED <<now, monitors, built, fn, arg, ret>>

\* The caller has printed what Check returned; the goroutine ends.
Exit(c) ==
    /\ calls[c].pc = "returned"
    /\ calls' = [calls EXCEPT ![c] = DoneCall]
    /\ UNCHANGED <<now, monitors, built, fn, arg, ret>>

NoFunction == fn = "" /\ arg = NIL /\ ret = NIL

\* The driver: NumMonitors monitors, NumCalls concurrent invocations.
Init ==
    /\ now = 1
    /\ monitors = [i \in 1..NumMonitors |-> NIL]
    /\ built = [i \in 1..NumMonitors |-> NIL]
    /\ calls = [c \in 1..NumCalls |-> IdleCall]
    /\ NoFunction

Next ==
    \/ \E i \in 1..NumMonitors : DriverBuild(i)
    \/ Tick
    \/ \E c \in 1..NumCalls : Begin(c, {"background"})
    \/ \E c \in 1..NumCalls : Send(c, DriverBehaviours)
    \/ \E c \in 1..NumCalls : Finish(c)
    \/ \E c \in 1..NumCalls : Exit(c)

Spec == Init /\ [][Next]_vars

\* One invocation on one monitor, over every configuration and endpoint.
InitCheck ==
    /\ now = 1
    /\ monitors = [i \in {1} |-> NIL]
    /\ built = [i \in {1} |-> NIL]
    /\ calls = [c \in {1} |-> IdleCall]
    /\ NoFunction

NextCheck ==
    \/ BuildNew(1)
    \/ BuildLiteral(1)
    \/ Tick
    \/ Begin(1, Contexts)
    \/ Send(1, Behaviours)
    \/ Finish(1)
    \/ Exit(1)

SpecCheck == InitCheck /\ [][NextCheck]_vars

(***************************************************************************)
(* Properties of the function-level runs.                                  *)
(***************************************************************************)
\* What a raw URL is to sanitizeURL: unparsable, or without scheme or host.
Incomplete(rawURL) ==
    \/ Parse(rawURL).err # NIL
    \/ Parse(rawURL).url.Scheme = <<>>
    \/ Parse(rawURL).url.Host = <<>>

\* The rule of certInfo that applies first to an input, as the head of the
\* message it gives ("" when the certificate is valid).
FirstRule(in) ==
    LET cert == in.tlsState.PeerCertificates[1]
        opts == [DNSName |-> in.host, Roots |-> in.sys.roots,
                 Intermediates |-> Tail(in.tlsState.PeerCertificates)]
    IN  IF in.t < cert.NotBefore THEN "certificate not yet valid: "
        ELSE IF in.t > cert.NotAfter THEN "certificate has expired: "
        ELSE IF in.sys.err # NIL
        THEN "error loading system root certificates: "
        ELSE IF Verify(cert, opts, in.t) # NIL
        THEN "hostname verification failed: "
        ELSE ""

\* C4: certInfo reports the earliest rule that applies, in the order
\* not-yet-valid, expired, trust-store failure, chain/hostname failure, valid;
\* the descriptive fields are those of the leaf in every case, and IsValid is
\* true exactly when ErrorMsg is empty.
C4_FirstRuleWins ==
    fn = "certInfo" =>
        /\ ret.Subject = arg.tlsState.PeerCertificates[1].Subject
        /\ ret.Issuer = arg.tlsState.PeerCertificates[1].Issuer
        /\ ret.ValidFrom = arg.tlsState.PeerCertificates[1].NotBefore
        /\ ret.ValidTo = arg.tlsState.PeerCertificates[1].NotAfter
        /\ ret.DNSNames = arg.tlsState.PeerCertificates[1].DNSNames
        /\ ret.IsValid <=> ret.ErrorMsg = <<>>
        /\ (FirstRule(arg) = "") <=> ret.ErrorMsg = <<>>
        /\ ret.ErrorMsg # <<>> => ret.ErrorMsg[1] = FirstRule(arg)

\* An expired leaf that chain verification would reject as well (signed by
\* nobody the pool trusts, and for another host) reports its expiry.
C4_Witness ==
    /\ fn = "certInfo"
    /\ arg.t > arg.tlsState.PeerCertificates[1].NotAfter
    /\ arg.t >= arg.tlsState.PeerCertificates[1].NotBefore
    /\ arg.sys.err = NIL
    /\ arg.tlsState.PeerCertificates[1].Issuer = Str("self")
    /\ arg.tlsState.PeerCertificates[1].DNSNames[1] # arg.host
    /\ ret.ErrorMsg[1] = "certificate has expired: "
    /\ ~ret.IsValid

\* C5: NewMonitor checks the method, then the timeout's sign, then the URL,
\* and stops at the first failure; a failure returns no monitor, a success
\* returns a monitor and no error.
C5_ValidationOrder ==
    fn = "NewMonitor" =>
        /\ (ret.mon = NIL) <=> (ret.err # NIL)
        /\ arg.Method = <<>> => ret.err = Error("missing HTTP method")
        /\ (arg.Method # <<>> /\ arg.RequestTimeout < 0)
              => ret.err = Error("negative timeout")
        /\ (arg.Method # <<>> /\ arg.RequestTimeout >= 0)
              => IF Incomplete(arg.URL)
                 THEN ret.err # NIL /\ ret.err.msg = "invalid URL"
                 ELSE ret.err = NIL

\* A configuration failing all three checks reports the missing method.
C5_Witness ==
    /\ fn = "NewMonitor"
    /\ arg.Method = <<>>
    /\ arg.RequestTimeout < 0
    /\ Incomplete(arg.URL)
    /\ ret.mon = NIL
    /\ ret.err = Error("missing HTTP method")

\* C6: a negative timeout fails; a zero timeout becomes the default of 10
\* seconds and construction succeeds when method and URL are valid; any other
\* timeout is kept; every monitor returned has a positive RequestTimeout,
\* equal to its client's Timeout.
C6_TimeoutRule ==
    fn = "NewMonitor" =>
        /\ arg.RequestTimeout < 0 => (ret.mon = NIL /\ ret.err # NIL)
        /\ (arg.RequestTimeout = 0 /\ arg.Method # <<>> /\ ~Incomplete(arg.URL))
              => /\ ret.err = NIL
                 /\ ret.mon # NIL
                 /\ ret.mon.config.RequestTimeout = 10
        /\ ret.mon # NIL
              => /\ ret.mon.config.RequestTimeout > 0
                 /\ ret.mon.client.Timeout = ret.mon.config.RequestTimeout
                 /\ arg.RequestTimeout # 0
                       => ret.mon.config.RequestTimeout = arg.RequestTimeout

\* A zero timeout with a valid method and URL: a monitor with the default.
C6_Witness ==
    /\ fn = "NewMonitor"
    /\ arg.RequestTimeout = 0
    /\ ret.mon # NIL
    /\ ret.mon.client.Timeout = 10

\* C7: sanitizeURL gives the empty string and an error for every URL that
\* does not parse or lacks a scheme or a host, and NewMonitor fails on it; for
\* every other URL construction succeeds and the stored URL is the
\* re-serialization of the parsed URL (https://a stays https://a), which
\* parses to the same URL again.
C7_StoredURL ==
    /\ fn = "sanitizeURL" =>
          IF Incomplete(arg)
          THEN ret.url = <<>> /\ ret.err # NIL
          ELSE ret.err = NIL /\ ret.url = String(Parse(arg).url)
    /\ fn = "NewMonitor" =>
          IF Incomplete(arg)
          THEN ret.mon = NIL /\ ret.err # NIL
          ELSE /\ ret.err = NIL
               /\ ret.mon # NIL
               /\ ret.mon.config.URL = String(Parse(arg).url)
               /\ Parse(ret.mon.config.URL).err = NIL
               /\ Parse(ret.mon.config.URL).url = Parse(arg).url
               /\ arg = ExampleURL => ret.mon.config.URL = ExampleURL

\* A URL is stored in a form that differs from the text given.
C7_Witness ==
    /\ fn = "NewMonitor"
    /\ ret.mon # NIL
    /\ ret.mon.config.URL # arg
    /\ ret.mon.config.URL = String(Parse(arg).url)

\* C8: a status code is up exactly when it is in the configured set, and,
\* when the configuration was given with an empty set, exactly when it is in
\* [200, 300), for a monitor from NewMonitor as for a struct literal.
C8_StatusClassification ==
    fn \in {"NewMonitor", "literal"} =>
        IF Len(arg.config.UpStatusCodes) = 0
        THEN ret.up <=> (arg.code >= 200 /\ arg.code < 300)
        ELSE ret.up <=> \E i \in 1..Len(arg.config.UpStatusCodes) :
                            arg.code = arg.config.UpStatusCodes[i]

(***************************************************************************)
(* Properties of Monitor.Check.                                            *)
(***************************************************************************)
Returned(c) == calls[c].pc = "returned"

Receiver(c) == monitors[calls[c].m]

\* C1: Check returns a result or an error, never both and never neither; an
\* error names the configured URL; a failure to build the request, to send it
\* or to read the body returns no result, whatever the local result holds.
C1_AllOrNothing ==
    \A c \in DOMAIN calls :
        Returned(c) =>
            /\ (calls[c].ret.result = NIL) <=> (calls[c].ret.err # NIL)
            /\ calls[c].ret.err # NIL =>
                  calls[c].ret.err.url = Receiver(c).config.URL
            /\ calls[c].req = NIL => calls[c].ret.result = NIL
            /\ (calls[c].req # NIL /\ calls[c].resp = NIL)
                  => calls[c].ret.result = NIL
            /\ (calls[c].resp # NIL /\ ~calls[c].resp.bodyOK)
                  => calls[c].ret.result = NIL

\* The body could not be read: the status code and both times are in the
\* local result, and nothing but the error is returned.
C1_Witness ==
    \E c \in DOMAIN calls :
        /\ Returned(c)
        /\ calls[c].resp # NIL
        /\ ~calls[c].resp.bodyOK
        /\ calls[c].result.StatusCode = 200
        /\ calls[c].result.Start > 0
        /\ calls[c].result.End > 0
        /\ calls[c].ret.result = NIL
        /\ calls[c].ret.err.msg = "failed to read response body"

\* The endpoint of invocation c answered over TLS with a leaf certificate
\* that is expired, not yet valid, untrusted or for another host, and its
\* body could be read.
BadCertificate(c) ==
    /\ calls[c].served # NIL
    /\ calls[c].req # NIL
    /\ calls[c].req.ctx = "background"
    /\ calls[c].req.URL.Scheme \in {Str("http"), Str("https")}
    /\ calls[c].req.URL.Host # <<>>
    /\ calls[c].served.fail = "none"
    /\ calls[c].served.bodyOK
    /\ calls[c].served.sys.err = NIL
    /\ Len(calls[c].served.chain) > 0
    /\ FinalURL(Receiver(c).client, calls[c].req, calls[c].served).Scheme
          = Str("https")
    /\ Verify(calls[c].served.chain[1],
              [DNSName |-> Hostname(FinalURL(Receiver(c).client, calls[c].req,
                                             calls[c].served)),
               Roots |-> calls[c].served.sys.roots,
               Intermediates |-> Tail(calls[c].served.chain)],
              calls[c].ended) # NIL

\* C2: on a monitor from NewMonitor, with verification bypassed or enforced,
\* an endpoint with a bad certificate yields a result and no error, whose
\* CertInfo has IsValid false and a message.
C2_CertProblemIsData ==
    \A c \in DOMAIN calls :
        (Returned(c) /\ built[calls[c].m].how = "NewMonitor"
            /\ BadCertificate(c))
        => /\ calls[c].ret.err = NIL
           /\ calls[c].ret.result # NIL
           /\ calls[c].ret.result.CertInfo # NIL
           /\ ~calls[c].ret.result.CertInfo.IsValid
           /\ calls[c].ret.result.CertInfo.ErrorMsg # <<>>

\* C3: a returned result has a CertInfo exactly when the response came over
\* TLS with at least one peer certificate, and certInfo never ran on an empty
\* list.
C3_CertInfoPresence ==
    \A c \in DOMAIN calls :
        (Returned(c) /\ calls[c].ret.result # NIL) =>
            /\ calls[c].ret.result.CertInfo # Panic
            /\ calls[c].ret.result.CertInfo # NIL
                  <=> /\ calls[c].resp.TLS # NIL
                      /\ Len(calls[c].resp.TLS.PeerCertificates) > 0

\* A TLS response without peer certificates: a result without CertInfo.
C3_Witness ==
    \E c \in DOMAIN calls :
        /\ Returned(c)
        /\ calls[c].ret.result # NIL
        /\ calls[c].resp.TLS # NIL
        /\ Len(calls[c].resp.TLS.PeerCertificates) = 0
        /\ calls[c].ret.result.CertInfo = NIL

\* C9: the request carries the three anti-cache headers, and its query is the
\* query of the configured URL followed by one nocache parameter.
C9_QueryKept ==
    \A c \in DOMAIN calls :
        calls[c].req # NIL =>
            /\ calls[c].req.Header = CacheHeaders
            /\ calls[c].req.URL.RawQuery =
                  IF Parse(Receiver(c).config.URL).url.RawQuery = <<>>
                  THEN NoCache(calls[c].began)
                  ELSE Parse(Receiver(c).config.URL).url.RawQuery
                          \o <<"&">> \o NoCache(calls[c].began)

\* C10: under every interleaving a monitor stays as it was constructed, and
\* what an invocation returns is its monitor's URL and the status, times and
\* certificate of its own response.
C10_Isolation ==
    /\ \A m \in DOMAIN monitors :
          built[m] # NIL => monitors[m] = built[m].mon
    /\ \A c \in DOMAIN calls :
          (Returned(c) /\ calls[c].ret.result # NIL) =>
              /\ calls[c].ret.result.URL = built[calls[c].m].mon.config.URL
              /\ calls[c].ret.result.StatusCode = calls[c].served.status
              /\ calls[c].ret.result.Start = calls[c].began
              /\ calls[c].ret.result.End = calls[c].ended
              /\ calls[c].ret.result.CertInfo # NIL =>
                    /\ calls[c].ret.result.CertInfo.Subject
                          = calls[c].served.chain[1].Subject
                    /\ calls[c].ret.result.CertInfo.ValidTo
                          = calls[c].served.chain[1].NotAfter
    /\ \A c \in DOMAIN calls :
          (Returned(c) /\ calls[c].ret.err # NIL) =>
              calls[c].ret.err.url = built[calls[c].m].mon.config.URL

\* Two invocations on one monitor have both returned, one with an error and
\* one with a result, and the monitor's URL still has its own query.
C10_Witness ==
    \E c, d \in DOMAIN calls :
        /\ c # d
        /\ calls[c].m = calls[d].m
        /\ Returned(c) /\ Returned(d)
        /\ calls[c].ret.err # NIL
        /\ calls[d].ret.result # NIL
        /\ calls[d].ret.result.CertInfo # NIL
        /\ Parse(Receiver(d).config.URL).url.RawQuery = Str("a")

=============================================================================
